---- MODULE Spec2Model ----
(***************************************************************************)
(* The gallery slideshow of src/js/main.js (initGallerySlideshow): a       *)
(* looping carousel driven by click handlers, a recurring auto-advance     *)
(* interval and one-shot completion timeouts.  Every action is one task of *)
(* the browser's event loop (one handler run to completion); time passes   *)
(* between tasks.                                                          *)
(***************************************************************************)
EXTENDS Integers, Sequences, FiniteSets, TLC

\* galleryImages.length of the shipped gallery; the model runs every gallery
\* size from 1 up to it.
NumImages == 5

\* setTimeout delay of an animated move, and the setInterval period (ms).
TransitionDuration == 1200
AutoSlidePeriod == 5000

\* Bounds of the model.
Granularity == 1
MaxDropped == 2
MaxChain == 3

RECURSIVE GCD(_, _)
GCD(a, b) == IF b = 0 THEN a ELSE GCD(b, a % b)

\* Time passes in steps of TimeStep ms: the coarsest grid on which both
\* timers fall, refined by Granularity.
TimeStep == GCD(AutoSlidePeriod, TransitionDuration) \div Granularity

VARIABLES
    galleryImages,      \* the Item Sequence (image ids 1..N)
    galleryTrack,       \* the rendered children of the track (image ids)
    nextButton,         \* the galleryNext element exists
    prevButton,         \* the galleryPrev element exists
    currentIndex,       \* the Position Index
    isTransitioning,    \* the Transition Flag
    transition,         \* galleryTrack.style.transition: "unset", "none", "animated"
    translateX,         \* galleryTrack.style.transform, in percent
    timeouts,           \* pending setTimeout callbacks: remaining delays (ms)
    intervals,          \* armed setInterval(nextSlide) timers: remaining delays (ms)
    autoSlideInterval,  \* handle of the last armed interval (0: undefined)
    initialized,        \* initGallerySlideshow has run
    \* observation of the run (not program state)
    lastEvent,          \* the handler that ran last
    from,               \* index at which the last accepted advance was issued
    dir,                \* its direction (+1, -1; 0: none yet)
    prevFrom,           \* the same for the accepted advance before it
    prevDir,
    dropped,            \* advances issued while the flag was true, since the last accepted one
    chain,              \* completion callbacks run since the last accepted advance
    sinceClick          \* ms since the last manual click (-1: none yet), capped at the period

carousel == <<currentIndex, isTransitioning, transition, translateX, timeouts>>
autoTimer == <<intervals, autoSlideInterval>>
fixed == <<galleryImages, galleryTrack, nextButton, prevButton>>
vars == <<galleryImages, galleryTrack, nextButton, prevButton, currentIndex, isTransitioning, transition,
          translateX, timeouts, intervals, autoSlideInterval, initialized,
          lastEvent, from, dir, prevFrom, prevDir, dropped, chain, sinceClick>>

N == Len(galleryImages)

Min(a, b) == IF a < b THEN a ELSE b

Remove(s, k) == [i \in 1..(Len(s) - 1) |-> IF i < k THEN s[i] ELSE s[i + 1]]

\* imagesToShow = [...galleryImages, ...galleryImages, ...galleryImages]
imagesToShow(images) == images \o images \o images

\* initializeTrack: one child per entry of imagesToShow, in order.
initializeTrack == galleryTrack' = imagesToShow(galleryImages)

\* Variant: the instant re-render arms no completion timeout.
updateTrackPosition_noInstantTimer(instant, flag, index, pending) ==
    IF flag /\ ~instant
    THEN /\ isTransitioning' = flag
         /\ timeouts' = pending
         /\ UNCHANGED <<transition, translateX>>
    ELSE /\ isTransitioning' = TRUE
         /\ transition' = IF instant THEN "none" ELSE "animated"
         /\ translateX' = -(index * 100)
         /\ timeouts' = IF instant THEN pending
                        ELSE Append(pending, TransitionDuration)

\* updateTrackPosition(instant), called with the flag, the index and the
\* pending timeouts as they are at the call.
updateTrackPosition(instant, flag, index, pending) ==
    IF flag /\ ~instant
    THEN /\ isTransitioning' = flag
         /\ timeouts' = pending
         /\ UNCHANGED <<transition, translateX>>
    ELSE /\ isTransitioning' = TRUE
         /\ transition' = IF instant THEN "none" ELSE "animated"
         /\ translateX' = -(index * 100)
         /\ timeouts' = Append(pending, IF instant THEN 0 ELSE TransitionDuration)

\* Variant: the forward wrap test is > instead of >=.
completion_strictWrap(k) ==
    LET rest == Remove(timeouts, k) IN
    IF currentIndex > N * 2
    THEN /\ currentIndex' = currentIndex - N
         /\ updateTrackPosition(TRUE, FALSE, currentIndex - N, rest)
    ELSE IF currentIndex < N
    THEN /\ currentIndex' = N + currentIndex
         /\ updateTrackPosition(TRUE, FALSE, N + currentIndex, rest)
    ELSE /\ isTransitioning' = FALSE
         /\ timeouts' = rest
         /\ UNCHANGED <<currentIndex, transition, translateX>>

\* Variant: the backward correction lands one entry short.
completion_backOffByOne(k) ==
    LET rest == Remove(timeouts, k) IN
    IF currentIndex >= N * 2
    THEN /\ currentIndex' = currentIndex - N
         /\ updateTrackPosition(TRUE, FALSE, currentIndex - N, rest)
    ELSE IF currentIndex < N
    THEN /\ currentIndex' = N + currentIndex - 1
         /\ updateTrackPosition(TRUE, FALSE, N + currentIndex - 1, rest)
    ELSE /\ isTransitioning' = FALSE
         /\ timeouts' = rest
         /\ UNCHANGED <<currentIndex, transition, translateX>>

\* Variant: the forward correction lands one entry late.
completion_fwdOffByOne(k) ==
    LET rest == Remove(timeouts, k) IN
    IF currentIndex >= N * 2
    THEN /\ currentIndex' = currentIndex - N + 1
         /\ updateTrackPosition(TRUE, FALSE, currentIndex - N + 1, rest)
    ELSE IF currentIndex < N
    THEN /\ currentIndex' = N + currentIndex
         /\ updateTrackPosition(TRUE, FALSE, N + currentIndex, rest)
    ELSE /\ isTransitioning' = FALSE
         /\ timeouts' = rest
         /\ UNCHANGED <<currentIndex, transition, translateX>>

\* Variant: the index is corrected but the track is not re-rendered.
completion_noRerender(k) ==
    LET rest == Remove(timeouts, k) IN
    /\ isTransitioning' = FALSE
    /\ timeouts' = rest
    /\ currentIndex' = IF currentIndex >= N * 2 THEN currentIndex - N
                       ELSE IF currentIndex < N THEN N + currentIndex
                       ELSE currentIndex
    /\ UNCHANGED <<transition, translateX>>

\* Variant: the callback is armed with setInterval and so stays pending.
completion_recurring(k) ==
    LET rest == [timeouts EXCEPT ![k] = TransitionDuration] IN
    IF currentIndex >= N * 2
    THEN /\ currentIndex' = currentIndex - N
         /\ updateTrackPosition(TRUE, FALSE, currentIndex - N, rest)
    ELSE IF currentIndex < N
    THEN /\ currentIndex' = N + currentIndex
         /\ updateTrackPosition(TRUE, FALSE, N + currentIndex, rest)
    ELSE /\ isTransitioning' = FALSE
         /\ timeouts' = rest
         /\ UNCHANGED <<currentIndex, transition, translateX>>

\* The setTimeout callback of updateTrackPosition, for pending timeout k.
completion(k) ==
    LET rest == Remove(timeouts, k) IN
    IF currentIndex >= N * 2
    THEN /\ currentIndex' = currentIndex - N
         /\ updateTrackPosition(TRUE, FALSE, currentIndex - N, rest)
    ELSE IF currentIndex < N
    THEN /\ currentIndex' = N + currentIndex
         /\ updateTrackPosition(TRUE, FALSE, N + currentIndex, rest)
    ELSE /\ isTransitioning' = FALSE
         /\ timeouts' = rest
         /\ UNCHANGED <<currentIndex, transition, translateX>>

\* Variant: nextSlide without its own isTransitioning test.
nextSlide_unguarded ==
    /\ currentIndex' = currentIndex + 1
    /\ updateTrackPosition(FALSE, isTransitioning, currentIndex + 1, timeouts)

nextSlide ==
    IF isTransitioning
    THEN UNCHANGED carousel
    ELSE /\ currentIndex' = currentIndex + 1
         /\ updateTrackPosition(FALSE, isTransitioning, currentIndex + 1, timeouts)

prevSlide ==
    IF isTransitioning
    THEN UNCHANGED carousel
    ELSE /\ currentIndex' = currentIndex - 1
         /\ updateTrackPosition(FALSE, isTransitioning, currentIndex - 1, timeouts)

\* clearInterval(handle): disarms the interval the handle names, if any.
clearInterval(armed, handle) ==
    IF handle \in 1..Len(armed) THEN Remove(armed, handle) ELSE armed

\* Variant: the previous interval is not cleared.
restartAutoSlide_noClear ==
    /\ intervals' = Append(intervals, AutoSlidePeriod)
    /\ autoSlideInterval' = Len(intervals')

restartAutoSlide ==
    /\ intervals' = Append(clearInterval(intervals, autoSlideInterval), AutoSlidePeriod)
    /\ autoSlideInterval' = Len(intervals')

----------------------------------------------------------------------------
\* Observation of an advance call: it is accepted when issued with the flag false.
ObserveAdvance(d) ==
    IF isTransitioning
    THEN /\ dropped' = Min(dropped + 1, MaxDropped)
         /\ UNCHANGED <<from, dir, prevFrom, prevDir, chain>>
    ELSE /\ from' = currentIndex
         /\ dir' = d
         /\ prevFrom' = from
         /\ prevDir' = dir
         /\ dropped' = 0
         /\ chain' = 0

\* State at the declarations of initGallerySlideshow, before "Initialize", on a
\* page that has the galleryTrack element (without it the function returns at
\* once and there is no carousel).
Init ==
    /\ galleryImages \in {[i \in 1..n |-> i] : n \in 1..NumImages}
    /\ galleryTrack = <<>>
    /\ nextButton \in BOOLEAN
    /\ prevButton \in BOOLEAN
    /\ currentIndex = Len(galleryImages)
    /\ isTransitioning = FALSE
    /\ transition = "unset"
    /\ translateX = 0
    /\ timeouts = <<>>
    /\ intervals = <<>>
    /\ autoSlideInterval = 0
    /\ initialized = FALSE
    /\ lastEvent = "load"
    /\ from = Len(galleryImages)
    /\ dir = 0
    /\ prevFrom = Len(galleryImages)
    /\ prevDir = 0
    /\ dropped = 0
    /\ chain = 0
    /\ sinceClick = -1

\* initGallerySlideshow from "Initialize" to its end.
initGallerySlideshow ==
    /\ ~initialized
    /\ initialized' = TRUE
    /\ initializeTrack
    /\ updateTrackPosition(FALSE, isTransitioning, currentIndex, timeouts)
    /\ restartAutoSlide
    /\ lastEvent' = "init"
    /\ UNCHANGED <<galleryImages, nextButton, prevButton, currentIndex>>
    /\ UNCHANGED <<from, dir, prevFrom, prevDir, dropped, chain, sinceClick>>

\* nextButton's click listener.
ClickNext ==
    /\ initialized
    /\ nextButton
    /\ nextSlide
    /\ restartAutoSlide
    /\ ObserveAdvance(1)
    /\ lastEvent' = "next"
    /\ sinceClick' = 0
    /\ UNCHANGED <<fixed, initialized>>

\* prevButton's click listener.
ClickPrev ==
    /\ initialized
    /\ prevButton
    /\ prevSlide
    /\ restartAutoSlide
    /\ ObserveAdvance(-1)
    /\ lastEvent' = "prev"
    /\ sinceClick' = 0
    /\ UNCHANGED <<fixed, initialized>>

\* An armed interval comes due: nextSlide runs and the interval is re-armed.
AutoTick ==
    /\ \E k \in 1..Len(intervals) :
          /\ intervals[k] = 0
          /\ intervals' = [intervals EXCEPT ![k] = AutoSlidePeriod]
    /\ nextSlide
    /\ ObserveAdvance(1)
    /\ lastEvent' = "auto"
    /\ UNCHANGED <<fixed, initialized, autoSlideInterval, sinceClick>>

\* A pending timeout comes due: its completion callback runs.
Completion ==
    /\ \E k \in 1..Len(timeouts) :
          /\ timeouts[k] = 0
          /\ completion(k)
    /\ chain' = Min(chain + 1, MaxChain)
    /\ lastEvent' = "completion"
    /\ UNCHANGED <<fixed, initialized, autoTimer, sinceClick>>
    /\ UNCHANGED <<from, dir, prevFrom, prevDir, dropped>>

\* Time passes.  A timer whose delay has run out is due; the event loop runs
\* its callback then or later, never earlier.
Elapse(delay) == IF delay >= TimeStep THEN delay - TimeStep ELSE 0

Tick ==
    /\ initialized
    /\ timeouts' = [k \in 1..Len(timeouts) |-> Elapse(timeouts[k])]
    /\ intervals' = [k \in 1..Len(intervals) |-> Elapse(intervals[k])]
    /\ sinceClick' = IF sinceClick = -1 THEN -1
                     ELSE Min(sinceClick + TimeStep, AutoSlidePeriod)
    /\ lastEvent' = "tick"
    /\ UNCHANGED <<fixed, initialized, autoSlideInterval>>
    /\ UNCHANGED <<currentIndex, isTransitioning, transition, translateX>>
    /\ UNCHANGED <<from, dir, prevFrom, prevDir, dropped, chain>>

Next ==
    \/ initGallerySlideshow
    \/ ClickNext
    \/ ClickPrev
    \/ AutoTick
    \/ Completion
    \/ Tick

Spec == Init /\ [][Next]_vars

\* The specification under the fairness the event loop gives: a task that is
\* due (the initial script, a due timer callback) is eventually run, and time
\* passes.
LiveSpec ==
    /\ Spec
    /\ WF_vars(initGallerySlideshow)
    /\ WF_vars(Tick)
    /\ WF_vars(Completion)
    /\ WF_vars(AutoTick)

----------------------------------------------------------------------------
Middle == N..(2 * N - 1)
IsAdvance(e) == e \in {"next", "prev", "auto"}
\* The image shown: the child of the track at the rendered offset.
Visible == galleryTrack[((0 - translateX) \div 100) + 1]

\* C1: the Position Index is always in [N-1, 2N]; whenever the Transition Flag
\* is false (a move has settled) it is in [N, 2N), so N-1 and 2N occur only
\* while the flag is true.
C1_IndexRange ==
    /\ currentIndex \in (N - 1)..(2 * N)
    /\ ~isTransitioning => currentIndex \in Middle
    /\ currentIndex \in {N - 1, 2 * N} => isTransitioning

\* A backward move from N has wrapped and settled at 2N-1.
C1_Witness ==
    /\ lastEvent = "completion" /\ ~isTransitioning /\ chain = 2
    /\ dir = -1 /\ from = N /\ currentIndex = 2 * N - 1

\* C2: an advance issued while the Transition Flag is true changes neither the
\* index, the offset, the flag nor the pending timeout; it is not replayed by
\* the completion callback (which never moves to another item); so however
\* many advances are issued during an animated move, the index is exactly one
\* step from where the accepted advance was issued.
C2_DroppedAdvance ==
    [][ /\ (IsAdvance(lastEvent') /\ isTransitioning) => UNCHANGED carousel
        /\ lastEvent' = "completion" => currentIndex' % N = currentIndex % N
        /\ (isTransitioning' /\ transition' = "animated")
              => currentIndex' = from' + dir' ]_vars

\* Two advances were dropped during one animated move.
C2_Witness ==
    /\ dropped = 2 /\ isTransitioning /\ transition = "animated"
    /\ dir = 1 /\ currentIndex = from + 1 /\ IsAdvance(lastEvent)

\* C3: at most one completion timeout is pending; while one is pending or the
\* flag is true only the completion callback changes the index; only the
\* completion callback clears the flag.
C3_OneMoveInFlight ==
    /\ [](Len(timeouts) <= 1)
    /\ [][ /\ (isTransitioning /\ ~isTransitioning') => lastEvent' = "completion"
           /\ ((isTransitioning \/ timeouts # <<>>) /\ currentIndex' # currentIndex)
                 => lastEvent' = "completion" ]_vars

\* A completion callback corrected a wrap and left exactly one (instant)
\* timeout pending.
C3_Witness ==
    /\ lastEvent = "completion" /\ chain = 1 /\ timeouts = <<0>>
    /\ isTransitioning /\ currentIndex = N /\ dir = 1

C5_InitInstant ==
    lastEvent = "init" =>
        /\ currentIndex = N
        /\ transition = "none"
        /\ \A k \in 1..Len(timeouts) : timeouts[k] = 0

\* C6: an advance accepted at settled index i settles at
\* N + ((i - N + d) mod N), d = +1 forward, -1 backward; while its animation is
\* in flight the index is i + d (2N or N-1 at a wrap).
C6_SettleValue ==
    /\ from \in Middle
    /\ (~isTransitioning /\ dir # 0)
          => currentIndex = N + ((from - N + dir) % N)
    /\ (isTransitioning /\ transition = "animated") => currentIndex = from + dir

\* N = 5: forward from 8 settled at 9, then forward from 9 settled at 5.
C6_Witness ==
    /\ N = 5 /\ ~isTransitioning /\ dir = 1 /\ from = 9 /\ currentIndex = 5
    /\ prevDir = 1 /\ prevFrom = 8

\* C7: when an accepted advance follows an accepted advance in the opposite
\* direction, the index it settles at is the index the first was issued at.
C7_RoundTrip ==
    (~isTransitioning /\ dir # 0 /\ prevDir = 0 - dir) => currentIndex = prevFrom

\* Forward from 2N-1 wrapped to N, then backward from N wrapped to 2N-1.
C7_Witness ==
    /\ N >= 2 /\ ~isTransitioning /\ prevDir = 1 /\ prevFrom = 2 * N - 1
    /\ dir = -1 /\ from = N /\ currentIndex = 2 * N - 1

\* C8: once initialized the rendered offset is -(index x 100)%; right after
\* initialization the index is N and the image shown is entry N of the 3N
\* rendered entries, item 0 of the Item Sequence; at every moment, also after a
\* wrap correction, the image shown is the item the accepted advance moved to.
C8_OffsetMatchesIndex ==
    /\ initialized => /\ translateX = 0 - (currentIndex * 100)
                      /\ Len(galleryTrack) = 3 * N
                      /\ Visible = galleryImages[((from + dir) % N) + 1]
    /\ lastEvent = "init" => /\ currentIndex = N
                             /\ translateX = 0 - (N * 100)
                             /\ Visible = galleryImages[1]

\* A forward wrap was corrected and re-rendered at index N.
C8_Witness ==
    /\ lastEvent = "completion" /\ transition = "none" /\ dir = 1
    /\ from = 2 * N - 1 /\ currentIndex = N /\ translateX = 0 - (N * 100)

\* C9: when a completion callback has run the Transition Flag is false, also
\* when the callback applied a wrap correction.
C9_FlagClearAfterCompletion ==
    lastEvent = "completion" => ~isTransitioning

\* C10: a true Transition Flag is eventually followed by a false one with the
\* index in [N, 2N); at most two completion callbacks follow one accepted
\* advance; and if the manual clicks stop, the auto-advance interval moves the
\* index forward again and again.
C10_Liveness ==
    /\ isTransitioning ~> (~isTransitioning /\ currentIndex \in Middle)
    /\ [](chain <= 2)
    /\ <>[](lastEvent \notin {"next", "prev"})
          => []<>(lastEvent = "auto" /\ dropped = 0 /\ currentIndex = from + 1)

\* A wrap has settled after two completion callbacks.
C10_Witness ==
    /\ chain = 2 /\ ~isTransitioning /\ lastEvent = "completion"
    /\ dir = 1 /\ currentIndex = N

====
